---- MODULE Spec2Model ----
(***************************************************************************)
(* A model of the governance gate of MA_3rd_layer: the Schema Authority    *)
(* (src/governance/schema.py), the Reviewer Gate (src/governance/          *)
(* reviewer.py) and the Governance Engine (src/governance/engine.py).      *)
(*                                                                         *)
(* JSON values are records [t, s, kv]:                                     *)
(*   t  the JSON type: "str", "obj", "arr", "null" or "num";               *)
(*   s  the text of a string ("" for the other types);                     *)
(*   kv the members of an object as a list of <<key, value>> pairs in      *)
(*      insertion order (Python dicts iterate in that order), the items    *)
(*      of an array as pairs <<"", item>>, <<>> for the other types.       *)
(***************************************************************************)
EXTENDS Integers, Sequences, FiniteSets, TLC

VARIABLES manifest, max_errors, weak_format_rules, governance_version,
          plan, pc, event, result, log, calls

vars == <<manifest, max_errors, weak_format_rules, governance_version,
          plan, pc, event, result, log, calls>>

----------------------------------------------------------------------------
(* JSON values *)

Str(text) == [t |-> "str", s |-> text, kv |-> <<>>]

Obj(pairs) == [t |-> "obj", s |-> "", kv |-> pairs]

Arr(items) == [t |-> "arr", s |-> "", kv |-> [i \in 1..Len(items) |-> <<"", items[i]>>]]

Null == [t |-> "null", s |-> "", kv |-> <<>>]

Num == [t |-> "num", s |-> "", kv |-> <<>>]

IsDict(v) == v.t = "obj"

IsList(v) == v.t = "arr"

IsStr(v) == v.t = "str"

\* dict.keys(), in iteration order
Keys(v) == [i \in 1..Len(v.kv) |-> v.kv[i][1]]

KeySet(v) == {v.kv[i][1] : i \in 1..Len(v.kv)}

\* list(d.values()) / the items of a list, in order
Values(v) == [i \in 1..Len(v.kv) |-> v.kv[i][2]]

HasKey(v, k) == IsDict(v) /\ k \in KeySet(v)

\* d.get(k, default)
Get(v, k, default) ==
    IF HasKey(v, k)
    THEN v.kv[CHOOSE i \in 1..Len(v.kv) : v.kv[i][1] = k][2]
    ELSE default

EmptyDict == Obj(<<>>)

\* Python truthiness of a JSON value ("if not dag")
Truthy(v) ==
    CASE v.t = "str" -> v.s # ""
      [] v.t = "obj" -> Len(v.kv) > 0
      [] v.t = "arr" -> Len(v.kv) > 0
      [] v.t = "null" -> FALSE
      [] OTHER -> TRUE

RECURSIVE Concat(_)
\* the concatenation of a list of lists
Concat(lists) ==
    IF Len(lists) = 0 THEN <<>> ELSE Head(lists) \o Concat(Tail(lists))

Range(seq) == {seq[i] : i \in 1..Len(seq)}

\* seq[:n] for n >= 0
Prefix(seq, n) == SubSeq(seq, 1, IF n < Len(seq) THEN n ELSE Len(seq))

----------------------------------------------------------------------------
(* Text: the spelling of the strings the regular expressions are applied to *)

Lower == {"a","b","c","d","e","f","g","h","i","j","k","l","m",
          "n","o","p","q","r","s","t","u","v","w","x","y","z"}

Upper == {"A","B","C","D","E","F","G","H","I","J","K","L","M",
          "N","O","P","Q","R","S","T","U","V","W","X","Y","Z"}

Digit == {"0","1","2","3","4","5","6","7","8","9"}

Whitespace == {" ", "\t", "\n"}

\* The characters of the strings that occur as identifiers and as values of
\* weak-format fields in the contracts of this model.
Spell(text) ==
    CASE text = "" -> <<>>
      [] text = " " -> <<" ">>
      [] text = "  " -> <<" ", " ">>
      [] text = "x" -> <<"x">>
      [] text = "a" -> <<"a">>
      [] text = "b" -> <<"b">>
      [] text = "c" -> <<"c">>
      [] text = "d" -> <<"d">>
      [] text = "get_user" -> <<"g","e","t","_","u","s","e","r">>
      [] text = "User-1" -> <<"U","s","e","r","-","1">>
      [] text = "bad key" -> <<"b","a","d"," ","k","e","y">>
      [] text = "k!" -> <<"k","!">>
      [] text = "ftp://h" -> <<"f","t","p",":","/","/","h">>
      [] text = "N/A" -> <<"N","/","A">>
      [] text = "h.io" -> <<"h",".","i","o">>
      [] text = "Http://h" -> <<"H","t","t","p",":","/","/","h">>
      [] text = "app.core" -> <<"a","p","p",".","c","o","r","e">>
      [] text = "my-pkg" -> <<"m","y","-","p","k","g">>
      [] text = "text" -> <<"t","e","x","t">>
      [] text = " x " -> <<" ", "x", " ">>

\* str.strip(): without leading and trailing whitespace
RECURSIVE LStrip(_)
LStrip(cs) ==
    IF Len(cs) > 0 /\ Head(cs) \in Whitespace THEN LStrip(Tail(cs)) ELSE cs

RECURSIVE RStrip(_)
RStrip(cs) ==
    IF Len(cs) > 0 /\ cs[Len(cs)] \in Whitespace
    THEN RStrip(SubSeq(cs, 1, Len(cs) - 1))
    ELSE cs

Strip(cs) == RStrip(LStrip(cs))

\* re.match of ^[class]+$ : one or more characters of the class, then the end
\* of the string or a newline that ends it
MatchClassPlus(cs, class) ==
    LET core == IF Len(cs) > 0 /\ cs[Len(cs)] = "\n"
                THEN SubSeq(cs, 1, Len(cs) - 1) ELSE cs
    IN  Len(core) > 0 /\ \A i \in 1..Len(core) : core[i] \in class

IdentifierChars == Lower \cup Upper \cup Digit \cup {"_", "-"}

ModuleChars == Lower \cup Upper \cup Digit \cup {"_", "."}

SchemeChars == Lower \cup Digit \cup {"+", ".", "-"}

HostChars == Lower \cup Upper \cup Digit \cup {"_", ".", "-"}

\* regex_identifier and regex_package: ^[a-zA-Z0-9_-]+$
regex_identifier(cs) == MatchClassPlus(cs, IdentifierChars)

regex_package(cs) == MatchClassPlus(cs, IdentifierChars)

\* regex_module: ^[a-zA-Z0-9_.]+$
regex_module(cs) == MatchClassPlus(cs, ModuleChars)

\* regex_url: ^(?:[a-z][a-z0-9+.-]*://[\w.-]+|N/A).*
regex_url(cs) ==
    \/ Len(cs) >= 3 /\ SubSeq(cs, 1, 3) = <<"N", "/", "A">>
    \/ /\ Len(cs) >= 1
       /\ cs[1] \in Lower
       /\ LET stops == {j \in 2..Len(cs) : cs[j] \notin SchemeChars}
          IN  /\ stops # {}
              /\ LET j == CHOOSE k \in stops : \A m \in stops : k <= m
                 IN  /\ j + 3 <= Len(cs)
                     /\ SubSeq(cs, j, j + 2) = <<":", "/", "/">>
                     /\ cs[j + 3] \in HostChars

----------------------------------------------------------------------------
(* Schema Authority (schema.py) *)

REQUIRED_INVARIANT_DOMAINS ==
    <<"api_contracts", "data_schemas", "env_vars", "build_dependencies",
      "auth_model", "persistence_model">>

REQUIRED_ASSUMPTION_CATEGORIES ==
    <<"authentication", "authorization", "deployment_scope", "data_retention",
      "scaling_model">>

\* ARCHITECTURE_CONTRACT_SCHEMA["required"] and the keys of its "properties"
TOP_LEVEL_PROPERTIES ==
    <<"project_name", "schema_version", "invariants", "assumptions", "build_dag">>

\* get_schema_version_hash(): the SHA-256 hex digest of the canonical schema,
\* a fixed 64-character lowercase hex string, named here by a symbol.
get_schema_version_hash == "sha256:ARCHITECTURE_CONTRACT_SCHEMA"

\* The strings of this model that match the schema's pattern ^[a-f0-9]{64}$:
\* the schema's own hash and one other well-formed digest.
MatchesHex64(text) == text \in {get_schema_version_hash, "sha256:other"}

----------------------------------------------------------------------------
(* Reviewer Gate (reviewer.py): errors *)

\* ReviewError. section is the dotted path as the list of its parts
\* ("invariants.env_vars" is <<"invariants", "env_vars">>), message a list of
\* the message's constituents, reference <<>> for None and <<r>> otherwise.
ReviewError(check_id, section, message, reference) ==
    [check_id |-> check_id, section |-> section, message |-> message,
     reference |-> reference]

\* One violation reported by Draft7Validator.iter_errors, as _check_schema
\* records it: section "structure", reference str(err.path).
StructureError(keyword, what, path) ==
    ReviewError("RG-SCHEMA-001", <<"structure">>, <<keyword, what>>, <<path>>)

\* keyword "required": one error for each required name the object lacks
RequiredViolations(v, names, path) ==
    LET missing == SelectSeq(names, LAMBDA n : ~HasKey(v, n))
    IN  [i \in 1..Len(missing) |-> StructureError("required", missing[i], path)]

\* keyword "additionalProperties": false: one error naming all the extras
AdditionalViolations(v, names, path) ==
    IF KeySet(v) \subseteq Range(names)
    THEN <<>>
    ELSE <<StructureError("additionalProperties", "unexpected", path)>>

\* keyword "type" with a list of admitted JSON types
TypeViolations(v, types, path) ==
    IF v.t \in types THEN <<>> ELSE <<StructureError("type", v.t, path)>>

\* "project_name": {"type": "string", "minLength": 1}
ProjectNameViolations(v) ==
    TypeViolations(v, {"str"}, "project_name")
    \o (IF IsStr(v) /\ v.s = ""
        THEN <<StructureError("minLength", "too short", "project_name")>>
        ELSE <<>>)

\* "schema_version": {"type": "string", "pattern": "^[a-f0-9]{64}$"}
SchemaVersionViolations(v) ==
    TypeViolations(v, {"str"}, "schema_version")
    \o (IF IsStr(v) /\ ~MatchesHex64(v.s)
        THEN <<StructureError("pattern", v.s, "schema_version")>>
        ELSE <<>>)

\* An object with required names, no other names, and one type rule for the
\* value of every name ("invariants" and "assumptions")
SectionViolations(v, names, types, path) ==
    TypeViolations(v, {"obj"}, path)
    \o (IF ~IsDict(v) THEN <<>>
        ELSE RequiredViolations(v, names, path)
             \o AdditionalViolations(v, names, path)
             \o Concat([i \in 1..Len(names) |->
                    IF HasKey(v, names[i])
                    THEN TypeViolations(Get(v, names[i], Null), types, names[i])
                    ELSE <<>>]))

\* "build_dag": an object whose every value is an array of strings
BuildDagViolations(v) ==
    TypeViolations(v, {"obj"}, "build_dag")
    \o (IF ~IsDict(v) THEN <<>>
        ELSE Concat([i \in 1..Len(v.kv) |->
                 LET node == v.kv[i][1]
                     deps == v.kv[i][2]
                 IN  TypeViolations(deps, {"arr"}, node)
                     \o (IF ~IsList(deps) THEN <<>>
                         ELSE Concat([j \in 1..Len(deps.kv) |->
                                  TypeViolations(deps.kv[j][2], {"str"}, node)]))]))

\* validator.iter_errors(contract) for a contract that is a JSON object: the
\* keywords of the schema in the order it lists them (required,
\* additionalProperties, properties), the properties in the schema's order.
iter_errors(contract) ==
    LET prop(name, violations) ==
            IF HasKey(contract, name) THEN violations ELSE <<>>
    IN  RequiredViolations(contract, TOP_LEVEL_PROPERTIES, "")
        \o AdditionalViolations(contract, TOP_LEVEL_PROPERTIES, "")
        \o prop("project_name",
                ProjectNameViolations(Get(contract, "project_name", Null)))
        \o prop("schema_version",
                SchemaVersionViolations(Get(contract, "schema_version", Null)))
        \o prop("invariants",
                SectionViolations(Get(contract, "invariants", Null),
                                  REQUIRED_INVARIANT_DOMAINS,
                                  {"obj", "arr", "str"}, "invariants"))
        \o prop("assumptions",
                SectionViolations(Get(contract, "assumptions", Null),
                                  REQUIRED_ASSUMPTION_CATEGORIES,
                                  {"str"}, "assumptions"))
        \o prop("build_dag", BuildDagViolations(Get(contract, "build_dag", Null)))

\* The text of a declared version inside the mismatch message
Repr(v) == IF IsStr(v) THEN v.s ELSE v.t

\* A schema check that stops at a version mismatch (for C2)
check_schema_version_only(contract, budget) ==
    IF Get(contract, "schema_version", Null) # Str(get_schema_version_hash)
    THEN <<ReviewError("RG-SCHEMA-001", <<"schema_version">>,
               <<"Version mismatch", get_schema_version_hash,
                 (IF IsStr(Get(contract, "schema_version", Null))
                  THEN Get(contract, "schema_version", Null).s
                  ELSE Get(contract, "schema_version", Null).t)>>, <<>>)>>
    ELSE IF Len(iter_errors(contract)) < budget THEN iter_errors(contract)
    ELSE SubSeq(iter_errors(contract), 1, budget)

\* The loop of _check_schema over the validator's errors: append, then stop
\* once the list (the version error included) holds max_errors entries.
RECURSIVE AppendUntilBudget(_, _, _)
AppendUntilBudget(errors, pending, budget) ==
    IF Len(pending) = 0 THEN errors
    ELSE LET next == Append(errors, Head(pending))
         IN  IF Len(next) >= budget THEN next
             ELSE AppendUntilBudget(next, Tail(pending), budget)

\* ReviewerGate._check_schema
check_schema(contract, budget) ==
    LET expected_version == get_schema_version_hash
        declared_version == Get(contract, "schema_version", Null)
        version_errors ==
            IF declared_version # Str(expected_version)
            THEN <<ReviewError("RG-SCHEMA-001", <<"schema_version">>,
                       <<"Version mismatch", expected_version,
                         Repr(declared_version)>>, <<>>)>>
            ELSE <<>>
    IN  AppendUntilBudget(version_errors, iter_errors(contract), budget)

----------------------------------------------------------------------------
(* Reviewer Gate (reviewer.py): the check families after the schema *)

\* An emptiness test that does not strip a string (for C5)
is_empty_unstripped(content) ==
    CASE IsStr(content) -> Len(Spell(content.s)) = 0
      [] IsDict(content) \/ IsList(content) -> Len(content.kv) = 0
      [] content.t = "null" -> TRUE
      [] OTHER -> FALSE

\* The emptiness test of _check_invariants for one domain's content
is_empty(content) ==
    CASE IsStr(content) -> Len(Strip(Spell(content.s))) = 0
      [] IsDict(content) \/ IsList(content) -> Len(content.kv) = 0
      [] content.t = "null" -> TRUE
      [] OTHER -> FALSE

\* ReviewerGate._check_invariants
check_invariants(contract) ==
    LET invariants == Get(contract, "invariants", EmptyDict)
    IN  Concat([i \in 1..Len(invariants.kv) |->
            IF is_empty(invariants.kv[i][2])
            THEN <<ReviewError("RG-INVARIANT-002",
                       <<"invariants", invariants.kv[i][1]>>,
                       <<"Domain is declared but empty">>, <<>>)>>
            ELSE <<>>])

\* ReviewerGate._check_references
check_references(contract) ==
    LET invariants == Get(contract, "invariants", EmptyDict)
        target_domains == <<"api_contracts", "data_schemas">>
        of_domain(domain) ==
            LET section == Get(invariants, domain, Null)
            IN  IF IsDict(section)
                THEN Concat([i \in 1..Len(section.kv) |->
                         LET key == section.kv[i][1]
                         IN  IF ~regex_identifier(Spell(key))
                             THEN <<ReviewError("RG-REFERENCE-003",
                                        <<"invariants", domain>>,
                                        <<"Invalid identifier format", key>>,
                                        <<key>>)>>
                             ELSE <<>>])
                ELSE <<>>
    IN  Concat([d \in 1..Len(target_domains) |-> of_domain(target_domains[d])])

\* The pattern _check_weak_formats applies under each label
regex_of(label, cs) ==
    CASE label = "url" -> regex_url(cs)
      [] label = "module" -> regex_module(cs)
      [] label = "package" -> regex_package(cs)

RECURSIVE scan_and_validate(_, _, _)
\* _check_weak_formats.scan_and_validate: the errors it appends, in order
scan_and_validate(data, target_keys, label) ==
    IF IsDict(data)
    THEN Concat([i \in 1..Len(data.kv) |->
             LET k == data.kv[i][1]
                 v == data.kv[i][2]
             IN  IF k \in target_keys /\ IsStr(v)
                 THEN IF ~regex_of(label, Spell(v.s))
                      THEN <<ReviewError("RG-WEAK-FORMAT-005",
                                 <<"weak_format", label>>,
                                 <<"Value invalid for field", v.s, k>>, <<k>>)>>
                      ELSE <<>>
                 ELSE scan_and_validate(v, target_keys, label)])
    ELSE IF IsList(data)
    THEN Concat([i \in 1..Len(data.kv) |->
             scan_and_validate(data.kv[i][2], target_keys, label)])
    ELSE <<>>

\* ReviewerGate._check_weak_formats; rules is self.weak_format_rules, a record
\* of the three allowlists (an allowlist the manifest lacks is empty)
check_weak_formats(contract, rules) ==
    LET invariants == Get(contract, "invariants", EmptyDict)
    IN  scan_and_validate(invariants, rules.url_fields, "url")
        \o scan_and_validate(invariants, rules.module_path_fields, "module")
        \o scan_and_validate(invariants, rules.package_name_fields, "package")

DagError(message, reference) ==
    ReviewError("RG-DAG-004", <<"build_dag">>, message, <<reference>>)

\* An existence check of the node names alone, not of their targets (for C11)
undefined_nodes_only(dag, valid_nodes) ==
    Concat([i \in 1..Len(dag.kv) |->
        IF dag.kv[i][1] \notin valid_nodes
        THEN <<DagError(<<"DAG node is not defined", dag.kv[i][1]>>, dag.kv[i][1])>>
        ELSE <<>>])

\* The existence check of _check_dag: every node and every target of the DAG
\* against the keys of invariants.build_dependencies
undefined_references(dag, valid_nodes) ==
    Concat([i \in 1..Len(dag.kv) |->
        LET node == dag.kv[i][1]
            targets == Values(dag.kv[i][2])
        IN  (IF node \notin valid_nodes
             THEN <<DagError(<<"DAG node is not defined", node>>, node)>>
             ELSE <<>>)
            \o Concat([j \in 1..Len(targets) |->
                   IF targets[j].s \notin valid_nodes
                   THEN <<DagError(<<"DAG target is not defined",
                                     targets[j].s, node>>, targets[j].s)>>
                   ELSE <<>>])])

\* dag.get(node, []) as a list of names
Neighbors(dag, node) ==
    LET targets == Values(Get(dag, node, Arr(<<>>)))
    IN  [j \in 1..Len(targets) |-> targets[j].s]

RECURSIVE detect_cycle(_, _, _)
RECURSIVE visit_neighbors(_, _, _, _)
\* _check_dag.detect_cycle with its two sets passed and returned: st is
\* [visited, recursion_stack], the value [found, visited, recursion_stack]
detect_cycle(dag, node, st) ==
    visit_neighbors(dag, node, Neighbors(dag, node),
                    [visited |-> st.visited \cup {node},
                     recursion_stack |-> st.recursion_stack \cup {node}])

\* The loop of detect_cycle over the neighbours still to visit
visit_neighbors(dag, node, neighbors, st) ==
    IF Len(neighbors) = 0
    THEN [found |-> FALSE, visited |-> st.visited,
          recursion_stack |-> st.recursion_stack \ {node}]
    ELSE LET neighbor == Head(neighbors)
         IN  IF neighbor \notin st.visited
             THEN LET sub == detect_cycle(dag, neighbor, st)
                  IN  IF sub.found THEN sub
                      ELSE visit_neighbors(dag, node, Tail(neighbors),
                               [visited |-> sub.visited,
                                recursion_stack |-> sub.recursion_stack])
             ELSE IF neighbor \in st.recursion_stack
             THEN [found |-> TRUE, visited |-> st.visited,
                   recursion_stack |-> st.recursion_stack]
             ELSE visit_neighbors(dag, node, Tail(neighbors), st)

RECURSIVE cycle_errors(_, _, _)
\* The loop of _check_dag over dag.keys(): the first key whose search finds a
\* cycle is reported and ends the loop
cycle_errors(dag, nodes, visited) ==
    IF Len(nodes) = 0 THEN <<>>
    ELSE IF Head(nodes) \in visited THEN cycle_errors(dag, Tail(nodes), visited)
    ELSE LET r == detect_cycle(dag, Head(nodes),
                      [visited |-> visited, recursion_stack |-> {}])
         IN  IF r.found
             THEN <<DagError(<<"Cycle detected involving node", Head(nodes)>>,
                             Head(nodes))>>
             ELSE cycle_errors(dag, Tail(nodes), r.visited)

\* A DAG check without its cycle detection (for C3)
check_dag_existence_only(contract) ==
    IF ~Truthy(Get(contract, "build_dag", EmptyDict)) THEN <<>>
    ELSE undefined_references(
             Get(contract, "build_dag", EmptyDict),
             IF IsDict(Get(Get(contract, "invariants", EmptyDict),
                           "build_dependencies", EmptyDict))
             THEN KeySet(Get(Get(contract, "invariants", EmptyDict),
                             "build_dependencies", EmptyDict))
             ELSE {})

\* ReviewerGate._check_dag
check_dag(contract) ==
    LET dag == Get(contract, "build_dag", EmptyDict)
        build_deps == Get(Get(contract, "invariants", EmptyDict),
                          "build_dependencies", EmptyDict)
        valid_nodes == IF IsDict(build_deps) THEN KeySet(build_deps) ELSE {}
        errors == undefined_references(dag, valid_nodes)
    IN  IF ~Truthy(dag) THEN <<>>
        ELSE IF Len(errors) > 0 THEN errors
        ELSE cycle_errors(dag, Keys(dag), {})

RECURSIVE taint(_, _, _)
\* A loop that reads a weak_format error as tainting nothing (for C9)
taint_skipping_weak_format(candidates, errors, tainted) ==
    IF Len(errors) = 0 THEN candidates \ tainted
    ELSE LET parts == Head(errors).section
         IN  IF parts[1] = "invariants" /\ Len(parts) > 1
             THEN taint(candidates, Tail(errors), tainted \cup {parts[2]})
             ELSE IF parts[1] = "weak_format"
             THEN taint(candidates, Tail(errors), tainted)
             ELSE IF parts[1] \in candidates
             THEN taint(candidates, Tail(errors), tainted \cup {parts[1]})
             ELSE {}

\* The loop of _compute_locked_sections: the locked sections given the errors
\* still to read and the sections tainted so far
taint(candidates, errors, tainted) ==
    IF Len(errors) = 0 THEN candidates \ tainted
    ELSE LET parts == Head(errors).section
         IN  IF parts[1] = "invariants" /\ Len(parts) > 1
             THEN taint(candidates, Tail(errors), tainted \cup {parts[2]})
             ELSE IF parts[1] = "weak_format" THEN {}
             ELSE IF parts[1] \in candidates
             THEN taint(candidates, Tail(errors), tainted \cup {parts[1]})
             ELSE {}

\* The candidate set of _compute_locked_sections
candidate_sections(contract) ==
    KeySet(Get(contract, "invariants", EmptyDict)) \cup {"build_dag", "assumptions"}

\* ReviewerGate._compute_locked_sections (the list it returns, as a set)
compute_locked_sections(contract, errors) ==
    taint(candidate_sections(contract), errors, {})

\* A guard that stops one error short of the budget (for C1)
budget_left_one_short(errors, budget) == Len(errors) < budget - 1

\* A guard that skips a family as soon as any error exists (for C10)
budget_left_while_clean(errors, budget) == Len(errors) = 0

\* "len(errors) < self.max_errors": the guard of every family after the schema
budget_left(errors, budget) == Len(errors) < budget

\* An error list that outlives the call: it starts as the previous call's
\* errors (for C7)
carried_errors == result.errors

\* "errors = []": the error list of one call of evaluate starts empty
new_errors == <<>>

\* ReviewResult
ReviewResult(admissible, errors, locked_sections) ==
    [admissible |-> admissible, errors |-> errors,
     locked_sections |-> locked_sections]

\* An evaluation that goes on after a broken schema (for C8)
schema_never_broken(errors) == FALSE

\* A result that reports every collected error (for C4)
reported_all(errors, budget) == errors

\* "if errors:" after the schema check: a broken schema ends the evaluation
schema_broken(errors) == Len(errors) > 0

\* "errors[:self.max_errors]": the errors a result reports
reported(errors, budget) == Prefix(errors, budget)

\* The errors ReviewerGate.evaluate has collected when it computes the locked
\* sections: each family after the schema runs while the budget is not used up
collect_errors(contract, budget, rules) ==
    LET e1 == new_errors \o check_schema(contract, budget)
        e2 == IF budget_left(e1, budget)
              THEN e1 \o check_invariants(contract) ELSE e1
        e3 == IF budget_left(e2, budget)
              THEN e2 \o check_references(contract) ELSE e2
        e4 == IF budget_left(e3, budget)
              THEN e3 \o check_weak_formats(contract, rules) ELSE e3
    IN  IF budget_left(e4, budget)
        THEN e4 \o check_dag(contract) ELSE e4

\* ReviewerGate.evaluate
evaluate(contract, budget, rules) ==
    LET schema_errors == new_errors \o check_schema(contract, budget)
        errors == collect_errors(contract, budget, rules)
    IN  IF schema_broken(schema_errors)
        THEN ReviewResult(FALSE, reported(schema_errors, budget), {})
        ELSE ReviewResult(Len(errors) = 0, reported(errors, budget),
                          compute_locked_sections(contract, errors))

----------------------------------------------------------------------------
(* Canonical Hasher (hashing.py) and Governance Engine (engine.py) *)

\* GovernanceHasher.compute_sha256: the digest is a symbol that determines the
\* data it was computed from (SHA-256 taken as collision free).
compute_sha256(data) == [sha256 |-> <<data>>]

\* GovernanceHasher.compute_governance_version: one digest over the canonical
\* manifest, the canonical schema and the text of reviewer.py
compute_governance_version(manifest_canonical, schema_canonical, reviewer_logic_str) ==
    [sha256 |-> <<manifest_canonical, schema_canonical, reviewer_logic_str>>]

\* manifest.get("max_errors", 5): the budget of a manifest that names none
DefaultMaxErrors == 5

\* ReviewerGate.__init__: self.max_errors
gate_max_errors(m) == IF m.has_max_errors THEN m.max_errors ELSE DefaultMaxErrors

\* ReviewerGate.__init__: self.weak_format_rules
gate_weak_format_rules(m) == m.weak_format_allowlists

\* The top-level keys alone, without those of the invariants mapping (for C6)
available_top_level(p) == KeySet(p)

\* The sections _verify_self_consistency finds in a plan: its top-level keys
\* and, when "invariants" is a mapping, the keys of that mapping
available_sections(p) ==
    KeySet(p) \cup (IF HasKey(p, "invariants") /\ IsDict(Get(p, "invariants", Null))
                    THEN KeySet(Get(p, "invariants", Null))
                    ELSE {})

RECURSIVE first_missing(_, _, _)
\* The loops of _verify_self_consistency: <<>> for None, else the message of
\* the first required section that is missing
first_missing(dependencies, sections, available) ==
    IF Len(sections) > 0
    THEN IF Head(sections) = "*"
         THEN first_missing(dependencies, Tail(sections), available)
         ELSE IF Head(sections) \notin available
         THEN <<<<"depends on missing section", Head(dependencies)[1], Head(sections)>>>>
         ELSE first_missing(dependencies, Tail(sections), available)
    ELSE IF Len(dependencies) <= 1 THEN <<>>
    ELSE first_missing(Tail(dependencies), dependencies[2][2], available)

\* GovernanceEngine._verify_self_consistency
verify_self_consistency(m, p) ==
    LET dependencies == m.check_section_dependencies
    IN  IF Len(dependencies) = 0 THEN <<>>
        ELSE first_missing(dependencies, dependencies[1][2], available_sections(p))

\* GovernanceEngine.evaluate_plan, the event it returns; review is the result
\* of self.reviewer.evaluate(plan), read only when the pre-flight check passes
evaluate_plan(m, version, p, timestamp, review) ==
    LET consistency_error == verify_self_consistency(m, p)
    IN  IF Len(consistency_error) > 0
        THEN [event_type |-> "PLAN_REJECTED",
              timestamp |-> timestamp,
              governance_version |-> version,
              status |-> "FAIL_GOVERNANCE_CONFIG",
              authority_granted |-> FALSE,
              error_count |-> 1,
              errors |-> <<ReviewError("SYS-CONSISTENCY", <<"manifest">>,
                               consistency_error[1], <<"manifest.json">>)>>,
              locked_sections |-> {},
              remediation |-> "SYSTEM ERROR"]
        ELSE IF review.admissible
        THEN [event_type |-> "PLAN_FROZEN",
              timestamp |-> timestamp,
              governance_version |-> version,
              plan_hash |-> compute_sha256(p),
              schema_version |-> Get(p, "schema_version", Null),
              status |-> "ADMISSIBLE",
              authority_granted |-> TRUE,
              frozen_artifact |-> p]
        ELSE [event_type |-> "PLAN_REJECTED",
              timestamp |-> timestamp,
              governance_version |-> version,
              status |-> "REJECTED",
              authority_granted |-> FALSE,
              error_count |-> Len(review.errors),
              errors |-> review.errors,
              locked_sections |-> review.locked_sections,
              remediation |-> "Planner must correct errors"]

----------------------------------------------------------------------------
(* Inputs: the manifests an engine is constructed from and the contracts    *)
(* submitted to it                                                          *)

\* The largest max_errors a manifest of the model declares
MaxBudget == 2

\* The number of node names the build DAGs of the model draw from
MaxDagNodes == 2

\* The largest value of int(time.time()) in the model
MaxTimestamp == 1

\* The number of plans submitted to one engine under SpecHistory
MaxCalls == 3

Timestamps == 0..MaxTimestamp

NoRules == [url_fields |-> {}, module_path_fields |-> {}, package_name_fields |-> {}]

FieldRules ==
    [url_fields |-> {"endpoint"}, module_path_fields |-> {"module"},
     package_name_fields |-> {"package"}]

\* check_section_dependencies: none; sections every valid contract has, and a
\* wildcard; a section no contract has; wildcards only
DependencyChoices ==
    { <<>>,
      << <<"RG-SCHEMA-001", <<"*">>>>,
         <<"RG-DAG-004", <<"build_dag", "build_dependencies">>>> >>,
      << <<"RG-INVARIANT-002", <<"*", "invariants">>>>,
         <<"RG-AUDIT-009", <<"audit_trail">>>> >>,
      << <<"RG-SCHEMA-001", <<"*">>>>, <<"RG-REFERENCE-003", <<"*">>>> >> }

Budgets ==
    {[has_max_errors |-> FALSE, max_errors |-> 0]}
    \cup {[has_max_errors |-> TRUE, max_errors |-> n] : n \in 1..MaxBudget}

Manifest(budget, rules, dependencies) ==
    [has_max_errors |-> budget.has_max_errors,
     max_errors |-> budget.max_errors,
     weak_format_allowlists |-> rules,
     check_section_dependencies |-> dependencies]

Manifests ==
    {Manifest(b, r, d) : b \in Budgets, r \in {NoRules, FieldRules},
                         d \in DependencyChoices}

\* The manifests the DAG contracts are judged under: every budget, no
\* allowlist, no dependency
DagManifests == {Manifest(b, NoRules, <<>>) : b \in Budgets}

\* A contract from its sections, each a list of zero or one member
Contract(project_name, schema_version, invariants, assumptions, build_dag, extra) ==
    Obj(project_name \o schema_version \o invariants \o assumptions
        \o build_dag \o extra)

Member(key, value) == <<<<key, value>>>>

GoodProjectName == Member("project_name", Str("x"))

GoodSchemaVersion == Member("schema_version", Str(get_schema_version_hash))

GoodAssumptions ==
    Member("assumptions",
           Obj([i \in 1..Len(REQUIRED_ASSUMPTION_CATEGORIES) |->
                   <<REQUIRED_ASSUMPTION_CATEGORIES[i], Str("text")>>]))

\* invariants from the content of each required domain, in the required order
Invariants(api, data, env, deps, auth, persistence) ==
    Member("invariants",
           Obj(<< <<"api_contracts", api>>, <<"data_schemas", data>>,
                  <<"env_vars", env>>, <<"build_dependencies", deps>>,
                  <<"auth_model", auth>>, <<"persistence_model", persistence>> >>))

Endpoint(url, module) ==
    Obj(<< <<"endpoint", Str(url)>>, <<"module", Str(module)>> >>)

GoodApi == Obj(<< <<"get_user", Endpoint("ftp://h", "app.core")>> >>)

GoodData == Obj(<< <<"User-1", Str("text")>> >>)

GoodEnv == Str(" x ")

GoodAuth == Obj(<< <<"kind", Str("text")>> >>)

GoodPersistence == Arr(<<Str("text")>>)

NodeNames == <<"a", "b", "c", "d">>

DagNodes == {NodeNames[i] : i \in 1..MaxDagNodes}

\* build_dependencies defining the first k node names
BuildDeps(k) == Obj([i \in 1..k |-> <<NodeNames[i], Str("text")>>])

AllBuildDeps == BuildDeps(MaxDagNodes)

GoodInvariants ==
    Invariants(GoodApi, GoodData, GoodEnv, AllBuildDeps, GoodAuth, GoodPersistence)

EmptyDag == Member("build_dag", EmptyDict)

\* A fully valid contract with an empty build DAG
ValidContract ==
    Contract(GoodProjectName, GoodSchemaVersion, GoodInvariants, GoodAssumptions,
             EmptyDag, <<>>)

\* The target lists of a DAG node: none or one target
TargetChoices == {<<>>} \cup {<<Str(n)>> : n \in DagNodes}

RECURSIVE DagsOver(_)
\* The member lists of the DAGs whose keys are the given names, in every order
DagsOver(names) ==
    IF names = {} THEN {<<>>}
    ELSE UNION {{<<<<n, Arr(t)>>>> \o rest : t \in TargetChoices,
                                          rest \in DagsOver(names \ {n})}
                : n \in names}

\* Every build DAG over the node names: any set of keys, in any order, each
\* with any target list
AllDags ==
    UNION {{Member("build_dag", Obj(members)) : members \in DagsOver(names)}
           : names \in SUBSET DagNodes}

TwoCycleDag ==
    Member("build_dag",
           Obj(<< <<"a", Arr(<<Str("b")>>)>>, <<"b", Arr(<<Str("a")>>)>> >>))

SelfLoopDag == Member("build_dag", Obj(<< <<"a", Arr(<<Str("a")>>)>> >>))

\* Contracts that differ from the valid one in their structure
StructureContracts ==
    {Contract(pn, sv, inv, rest[1], rest[2], rest[3]) :
        pn \in {GoodProjectName, Member("project_name", Str(""))},
        sv \in {GoodSchemaVersion, <<>>, Member("schema_version", Str("sha256:other")),
                Member("schema_version", Str("text"))},
        inv \in {GoodInvariants, <<>>, Member("invariants", EmptyDict),
                 Invariants(GoodApi, Null, GoodEnv, AllBuildDeps, GoodAuth,
                            GoodPersistence)},
        rest \in {<<GoodAssumptions, EmptyDag, <<>>>>,
                  <<Member("assumptions", Str("text")), EmptyDag, <<>>>>,
                  <<GoodAssumptions, Member("build_dag", Obj(<< <<"a", Str("b")>> >>)),
                    <<>>>>,
                  <<GoodAssumptions, EmptyDag, Member("notes", Str("text"))>>}}

\* Schema-valid contracts that differ from the valid one in the content of
\* their invariant domains and in their build DAG
ContentContracts ==
    {Contract(GoodProjectName, GoodSchemaVersion,
              Invariants(api, data, env, deps, auth, GoodPersistence),
              GoodAssumptions, dag, <<>>) :
        api \in {GoodApi,
                 Obj(<< <<"bad key", Endpoint("N/A", "app.core")>> >>),
                 Obj(<< <<"get_user", Endpoint("h.io", "bad key")>>,
                        <<"k!", Endpoint("Http://h", "app.core")>> >>)},
        data \in {GoodData, Arr(<<>>)},
        env \in {GoodEnv, Str("  "),
                 Arr(<<Obj(<< <<"package", Str("bad key")>> >>)>>)},
        deps \in {AllBuildDeps},
        auth \in {GoodAuth, EmptyDict},
        dag \in {EmptyDag, TwoCycleDag, SelfLoopDag}}

\* The empty contents of an invariant domain that the schema admits
EmptyContents == {EmptyDict, Arr(<<>>), Str(""), Str("  ")}

\* The valid contract with the content of one domain replaced
WithDomain(d, content) ==
    Contract(GoodProjectName, GoodSchemaVersion,
             Member("invariants",
                    Obj([i \in 1..Len(REQUIRED_INVARIANT_DOMAINS) |->
                            IF REQUIRED_INVARIANT_DOMAINS[i] = d
                            THEN <<d, content>>
                            ELSE GoodInvariants[1][2].kv[i]])),
             GoodAssumptions, EmptyDag, <<>>)

\* Valid contracts but for one empty invariant domain
EmptyDomainContracts ==
    {WithDomain(d, content) : d \in Range(REQUIRED_INVARIANT_DOMAINS),
                              content \in EmptyContents}

\* Schema-valid contracts with every build DAG over every build_dependencies
DagContracts ==
    {Contract(GoodProjectName, GoodSchemaVersion,
              Invariants(GoodApi, GoodData, GoodEnv, deps, GoodAuth, GoodPersistence),
              GoodAssumptions, dag, <<>>) :
        deps \in {BuildDeps(k) : k \in 1..MaxDagNodes} \cup {Str("text")},
        dag \in AllDags}

Contracts == StructureContracts \cup ContentContracts \cup EmptyDomainContracts

\* The contracts resubmitted under SpecHistory
HistoryContracts ==
    { ValidContract,
      WithDomain("auth_model", EmptyDict),
      Contract(GoodProjectName, Member("schema_version", Str("sha256:other")),
               <<>>, GoodAssumptions, EmptyDag, <<>>),
      Contract(GoodProjectName, GoodSchemaVersion, GoodInvariants, GoodAssumptions,
               TwoCycleDag, <<>>) }

HistoryManifests ==
    {Manifest(b, FieldRules, d) : b \in Budgets, d \in DependencyChoices}

----------------------------------------------------------------------------
(* The engine as a state machine *)

NoEvent == [event_type |-> "NONE"]

NoResult == ReviewResult(FALSE, <<>>, {})

\* GovernanceEngine.__init__ for manifest m, then the submission of plan p
Constructed(m, p) ==
    /\ manifest = m
    /\ max_errors = gate_max_errors(m)
    /\ weak_format_rules = gate_weak_format_rules(m)
    /\ governance_version =
           compute_governance_version(m, "ARCHITECTURE_CONTRACT_SCHEMA", "reviewer.py")
    /\ plan = p
    /\ pc = "submitted"
    /\ event = NoEvent
    /\ result = NoResult
    /\ log = <<>>
    /\ calls = 1

Init ==
    \/ \E m \in Manifests, p \in Contracts : Constructed(m, p)
    \/ \E m \in DagManifests, p \in DagContracts : Constructed(m, p)

InitHistory ==
    \E m \in HistoryManifests, p \in HistoryContracts : Constructed(m, p)

\* What an event says apart from its timestamp
Verdict(e) == [f \in (DOMAIN e) \ {"timestamp"} |-> e[f]]

\* ReviewerGate.evaluate called on the submitted contract
Evaluate ==
    /\ pc = "submitted"
    /\ result' = evaluate(plan, max_errors, weak_format_rules)
    /\ pc' = "reviewed"
    /\ UNCHANGED <<manifest, max_errors, weak_format_rules, governance_version,
                   plan, event, log, calls>>

\* GovernanceEngine.evaluate_plan called on the submitted plan at time timestamp
EvaluatePlan(timestamp) ==
    /\ pc = "submitted"
    /\ LET passed == Len(verify_self_consistency(manifest, plan)) = 0
           review == evaluate(plan, max_errors, weak_format_rules)
       IN  /\ result' = IF passed THEN review ELSE result
           /\ event' = evaluate_plan(manifest, governance_version, plan,
                                     timestamp, review)
    /\ log' = Append(log, [plan |-> plan, verdict |-> Verdict(event')])
    /\ pc' = "decided"
    /\ UNCHANGED <<manifest, max_errors, weak_format_rules, governance_version,
                   plan, calls>>

\* The caller submits another plan to the same engine
Submit(p) ==
    /\ pc \in {"reviewed", "decided"}
    /\ calls < MaxCalls
    /\ plan' = p
    /\ pc' = "submitted"
    /\ calls' = calls + 1
    /\ UNCHANGED <<manifest, max_errors, weak_format_rules, governance_version,
                   event, result, log>>

Next ==
    \/ Evaluate
    \/ \E timestamp \in Timestamps : EvaluatePlan(timestamp)

NextHistory ==
    \/ Evaluate
    \/ \E timestamp \in Timestamps : EvaluatePlan(timestamp)
    \/ \E p \in HistoryContracts : Submit(p)

Spec == Init /\ [][Next]_vars

SpecHistory == InitHistory /\ [][NextHistory]_vars

----------------------------------------------------------------------------
(* Properties *)

\* The contract declares the Schema Authority's own version
VersionMatches(c) == Get(c, "schema_version", Null) = Str(get_schema_version_hash)

\* The schema check has nothing to report on the contract
SchemaClean(c) == VersionMatches(c) /\ Len(iter_errors(c)) = 0

\* The manifest names a non-wildcard section the plan has neither at its top
\* level nor as a key of its invariants mapping
MissingSection(m, p) ==
    \E i \in 1..Len(m.check_section_dependencies) :
        \E s \in Range(m.check_section_dependencies[i][2]) :
            /\ s # "*"
            /\ s \notin KeySet(p)
            /\ ~(IsDict(Get(p, "invariants", Null))
                 /\ s \in KeySet(Get(p, "invariants", Null)))

\* The errors of the four families after the schema, each run unconditionally
\* in the fixed order
UnbudgetedErrors(c, rules) ==
    check_invariants(c) \o check_references(c) \o check_weak_formats(c, rules)
    \o check_dag(c)

CheckIds(errors) == {errors[i].check_id : i \in 1..Len(errors)}

\* The edges of a build DAG
Edges(dag) ==
    UNION {{<<dag.kv[i][1], dag.kv[i][2].kv[j][2].s>> :
               j \in 1..Len(dag.kv[i][2].kv)} : i \in 1..Len(dag.kv)}

RECURSIVE ReachableFrom(_, _)
\* The nodes reachable from a set of nodes by zero or more edges
ReachableFrom(edges, nodes) ==
    LET more == nodes \cup {e[2] : e \in {f \in edges : f[1] \in nodes}}
    IN  IF more = nodes THEN nodes ELSE ReachableFrom(edges, more)

\* The nodes that lie on a cycle of the DAG
OnCycle(dag) ==
    {n \in KeySet(dag) :
        n \in ReachableFrom(Edges(dag), {e[2] : e \in {f \in Edges(dag) : f[1] = n}})}

HasCycle(dag) == OnCycle(dag) # {}

BuildDag(c) == Get(c, "build_dag", EmptyDict)

RequiredDomains == Range(REQUIRED_INVARIANT_DOMAINS)

\* C1: evaluate_plan returns PLAN_FROZEN with authority granted, carrying the
\* input contract unchanged, exactly when the pre-flight check passes and none
\* of the five check families finds an error; otherwise it returns
\* PLAN_REJECTED with authority denied.
C1_FrozenIffAllChecksPass ==
    pc = "decided" =>
        IF /\ ~MissingSection(manifest, plan)
           /\ SchemaClean(plan)
           /\ Len(check_invariants(plan)) = 0
           /\ Len(check_references(plan)) = 0
           /\ Len(check_weak_formats(plan, manifest.weak_format_allowlists)) = 0
           /\ Len(check_dag(plan)) = 0
        THEN /\ event.event_type = "PLAN_FROZEN"
             /\ event.authority_granted = TRUE
             /\ event.frozen_artifact = plan
        ELSE /\ event.event_type = "PLAN_REJECTED"
             /\ event.authority_granted = FALSE

C1_Witness ==
    /\ pc = "decided"
    /\ event.event_type = "PLAN_FROZEN"
    /\ manifest.check_section_dependencies # <<>>
    /\ manifest.weak_format_allowlists = FieldRules

\* C2 as stated: a contract whose declared version differs from the schema's
\* hash is rejected with exactly one RG-SCHEMA-001 error and no locked section.
C2_ExactlyOneError ==
    (pc = "reviewed" /\ ~VersionMatches(plan)) =>
        /\ ~result.admissible
        /\ Len(result.errors) = 1
        /\ result.errors[1].check_id = "RG-SCHEMA-001"
        /\ result.locked_sections = {}

\* C2 amended: a contract whose declared version differs from the schema's
\* hash is rejected with no locked section; its errors are the version
\* mismatch followed by the structural violations of the contract, cut to
\* max_errors entries, all of them RG-SCHEMA-001: exactly one error when the
\* contract is structurally valid or max_errors is 1, and no later family runs.
C2_VersionMismatchRejected ==
    (pc = "reviewed" /\ ~VersionMatches(plan)) =>
        LET violations == iter_errors(plan)
            expected == IF 1 + Len(violations) < max_errors
                        THEN 1 + Len(violations) ELSE max_errors
        IN  /\ ~result.admissible
            /\ result.locked_sections = {}
            /\ Len(result.errors) = expected
            /\ result.errors[1].section = <<"schema_version">>
            /\ \A i \in 1..Len(result.errors) :
                   /\ result.errors[i].check_id = "RG-SCHEMA-001"
                   /\ i > 1 => result.errors[i] = violations[i - 1]
            /\ (Len(violations) = 0 \/ max_errors = 1) => Len(result.errors) = 1

C2_Witness ==
    /\ pc = "reviewed"
    /\ ~VersionMatches(plan)
    /\ Len(result.errors) > 1
    /\ Len(check_invariants(plan)) > 0

\* C3: a schema-valid contract whose build_dag has a cycle is never admissible,
\* and when no other family reports an error the reported errors include an
\* RG-DAG-004 error.
C3_CycleNeverAdmissible ==
    (pc = "reviewed" /\ SchemaClean(plan) /\ HasCycle(BuildDag(plan))) =>
        /\ ~result.admissible
        /\ (/\ Len(check_invariants(plan)) = 0
            /\ Len(check_references(plan)) = 0
            /\ Len(check_weak_formats(plan, weak_format_rules)) = 0)
           => "RG-DAG-004" \in CheckIds(result.errors)

C3_Witness ==
    /\ pc = "reviewed"
    /\ SchemaClean(plan)
    /\ HasCycle(BuildDag(plan))
    /\ "a" \notin OnCycle(BuildDag(plan))
    /\ CheckIds(result.errors) = {"RG-DAG-004"}
    /\ result.errors[1].message[1] = "Cycle detected involving node"

\* C4: a result never reports more than max_errors errors, and reports exactly
\* max_errors for a contract with more schema violations than max_errors.
C4_ErrorBudget ==
    pc = "reviewed" =>
        /\ Len(result.errors) <= max_errors
        /\ Len(iter_errors(plan)) > max_errors => Len(result.errors) = max_errors

C4_Witness ==
    /\ pc = "reviewed"
    /\ ~manifest.has_max_errors
    /\ Len(iter_errors(plan)) > max_errors
    /\ Len(result.errors) = DefaultMaxErrors

\* The content is an empty mapping, an empty array or a string of nothing but
\* whitespace
EmptyContent(v) ==
    \/ (IsDict(v) \/ IsList(v)) /\ Len(v.kv) = 0
    \/ IsStr(v) /\ \A i \in 1..Len(Spell(v.s)) : Spell(v.s)[i] \in Whitespace

\* The contract is fully valid but for its invariant domain d, which is empty
ValidButEmpty(c, rules, d) ==
    /\ SchemaClean(c)
    /\ \A e \in RequiredDomains :
           EmptyContent(Get(Get(c, "invariants", Null), e, Null)) <=> e = d
    /\ Len(check_references(c)) = 0
    /\ Len(check_weak_formats(c, rules)) = 0
    /\ Len(check_dag(c)) = 0

\* C5: a contract that is valid but for one empty invariant domain d is
\* rejected with exactly one error, RG-INVARIANT-002 on invariants.d, and its
\* locked sections are the required domains, build_dag and assumptions, less d.
C5_OneEmptyDomain ==
    pc = "reviewed" =>
        \A d \in RequiredDomains :
            ValidButEmpty(plan, weak_format_rules, d) =>
                /\ ~result.admissible
                /\ Len(result.errors) = 1
                /\ result.errors[1].check_id = "RG-INVARIANT-002"
                /\ result.errors[1].section = <<"invariants", d>>
                /\ result.locked_sections =
                       (RequiredDomains \cup {"build_dag", "assumptions"}) \ {d}

C5_Witness ==
    /\ pc = "reviewed"
    /\ ValidButEmpty(plan, weak_format_rules, "build_dependencies")
    /\ Get(Get(plan, "invariants", Null), "build_dependencies", Null) = Str("  ")
    /\ max_errors = 1

\* C6: evaluate_plan rejects with the single error SYS-CONSISTENCY and no locked
\* section, without running the Reviewer Gate, exactly when the manifest names
\* a missing non-wildcard section; wildcards alone never cause this rejection.
C6_PreflightRejection ==
    [][(pc = "submitted" /\ pc' = "decided") =>
          IF MissingSection(manifest, plan)
          THEN /\ event'.event_type = "PLAN_REJECTED"
               /\ Len(event'.errors) = 1
               /\ event'.errors[1].check_id = "SYS-CONSISTENCY"
               /\ event'.locked_sections = {}
               /\ result' = result
          ELSE /\ event'.status # "FAIL_GOVERNANCE_CONFIG"
               /\ event'.event_type = "PLAN_REJECTED"
                  => "SYS-CONSISTENCY" \notin CheckIds(event'.errors)]_vars

C6_Witness ==
    /\ pc = "decided"
    /\ event.status = "FAIL_GOVERNANCE_CONFIG"
    /\ HasKey(plan, "invariants")
    /\ "*" \in Range(manifest.check_section_dependencies[1][2])

\* C7: on one engine, every evaluation of the same plan yields the same event
\* apart from its timestamp, whatever was evaluated before or in between, and
\* no step changes the manifest, the gate's configuration, the governance
\* version or the submitted plan's evaluation input.
C7_Deterministic ==
    [][/\ manifest' = manifest
       /\ max_errors' = max_errors
       /\ weak_format_rules' = weak_format_rules
       /\ governance_version' = governance_version
       /\ pc = "submitted" => plan' = plan
       /\ \A i, j \in 1..Len(log') :
              log'[i].plan = log'[j].plan => log'[i].verdict = log'[j].verdict
       /\ pc' = "decided" => event'.governance_version = governance_version]_vars

C7_Witness ==
    /\ Len(log) = 3
    /\ log[1].plan = log[3].plan
    /\ log[2].plan # log[1].plan
    /\ log[1].verdict.event_type = "PLAN_REJECTED"
    /\ log[2].verdict.event_type = "PLAN_FROZEN"

\* C8: when the schema check reports an error the evaluation is rejected, every
\* reported error is RG-SCHEMA-001 and no section is locked: no later family
\* contributes.
C8_SchemaErrorsShortCircuit ==
    (pc = "reviewed" /\ ~SchemaClean(plan)) =>
        /\ ~result.admissible
        /\ Len(result.errors) > 0
        /\ CheckIds(result.errors) = {"RG-SCHEMA-001"}
        /\ result.locked_sections = {}

C8_Witness ==
    /\ pc = "reviewed"
    /\ ~SchemaClean(plan)
    /\ Len(result.errors) < max_errors
    /\ Len(check_invariants(plan)) > 0

\* The locked sections as the rules state them, from a list of errors
LockedByRules(c, errors) ==
    LET candidates == KeySet(Get(c, "invariants", EmptyDict))
                          \cup {"build_dag", "assumptions"}
        sections == {errors[i].section : i \in 1..Len(errors)}
        domain_taints == {sec \in sections : sec[1] = "invariants" /\ Len(sec) > 1}
        others == sections \ domain_taints
    IN  IF \E sec \in others : sec[1] = "weak_format" \/ sec[1] \notin candidates
        THEN {}
        ELSE candidates \ ({sec[2] : sec \in domain_taints}
                           \cup {sec[1] : sec \in others})

\* C9: for a schema-valid contract the locked sections are the candidates (the
\* declared domains, build_dag, assumptions) less the domain of every
\* invariants.<domain> error and less every top-level candidate an error names,
\* and none at all once an error is under weak_format or names no candidate;
\* an admissible result locks every candidate.
C9_LockedSections ==
    (pc = "reviewed" /\ SchemaClean(plan)) =>
        /\ result.locked_sections =
               LockedByRules(plan, collect_errors(plan, max_errors, weak_format_rules))
        /\ result.admissible =>
               result.locked_sections =
                   RequiredDomains \cup {"build_dag", "assumptions"}

C9_Witness ==
    /\ pc = "reviewed"
    /\ SchemaClean(plan)
    /\ "RG-WEAK-FORMAT-005" \in CheckIds(result.errors)
    /\ "RG-INVARIANT-002" \in CheckIds(result.errors)
    /\ result.locked_sections = {}

\* C10: for a schema-valid contract the reported errors are the first
\* max_errors of the errors the four later families report when each runs
\* unconditionally, and the result is admissible exactly when those are none.
C10_BudgetIsEarlyExit ==
    (pc = "reviewed" /\ SchemaClean(plan)) =>
        LET all == UnbudgetedErrors(plan, weak_format_rules)
        IN  /\ result.errors = Prefix(all, max_errors)
            /\ result.admissible = (Len(all) = 0)

C10_Witness ==
    /\ pc = "reviewed"
    /\ SchemaClean(plan)
    /\ Len(check_invariants(plan)) = max_errors
    /\ Len(check_references(plan)) > 0
    /\ Len(check_dag(plan)) > 0

\* The keys of invariants.build_dependencies (none when it is not a mapping)
DefinedNodes(c) ==
    LET deps == Get(Get(c, "invariants", EmptyDict), "build_dependencies", EmptyDict)
    IN  IF IsDict(deps) THEN KeySet(deps) ELSE {}

\* Every name a DAG mentions, in order: each node followed by its targets
DagNames(dag) ==
    Concat([i \in 1..Len(dag.kv) |->
        <<dag.kv[i][1]>> \o [j \in 1..Len(dag.kv[i][2].kv) |-> dag.kv[i][2].kv[j][2].s]])

\* The mentions of names that build_dependencies does not define
UndefinedMentions(c) ==
    SelectSeq(DagNames(BuildDag(c)), LAMBDA n : n \notin DefinedNodes(c))

IsCycleError(e) == e.message[1] = "Cycle detected involving node"

\* C11: for a non-empty build_dag the DAG check reports one RG-DAG-004 error
\* (section build_dag, reference the name) for every mention of a node or
\* target that is not a key of invariants.build_dependencies, and when there
\* is such a mention it reports nothing else, no cycle error either; an empty
\* build_dag yields no error. With the earlier families clean these are the
\* errors the result reports, up to max_errors.
C11_UndefinedReferences ==
    (pc = "reviewed" /\ SchemaClean(plan)) =>
        LET errors == check_dag(plan)
            undefined == UndefinedMentions(plan)
        IN  /\ Len(BuildDag(plan).kv) = 0 => errors = <<>>
            /\ Len(undefined) > 0 =>
                   /\ Len(errors) = Len(undefined)
                   /\ \A i \in 1..Len(errors) :
                          /\ errors[i].check_id = "RG-DAG-004"
                          /\ errors[i].section = <<"build_dag">>
                          /\ errors[i].reference = <<undefined[i]>>
                          /\ ~IsCycleError(errors[i])
            /\ Len(undefined) = 0 => \A i \in 1..Len(errors) : IsCycleError(errors[i])
            /\ (/\ Len(check_invariants(plan)) = 0
                /\ Len(check_references(plan)) = 0
                /\ Len(check_weak_formats(plan, weak_format_rules)) = 0)
               => result.errors = Prefix(errors, max_errors)

C11_Witness ==
    /\ pc = "reviewed"
    /\ SchemaClean(plan)
    /\ HasCycle(BuildDag(plan))
    /\ "a" \in DefinedNodes(plan)
    /\ Len(UndefinedMentions(plan)) = 2
    /\ Len(result.errors) = 2
    /\ result.errors[1].message[1] = "DAG target is not defined"
    /\ result.errors[2].message[1] = "DAG node is not defined"

\* C12: when every DAG reference is defined, the DAG check reports a cycle
\* error exactly when build_dag has a cycle, it reports exactly one, and the
\* node that error names lies on a cycle.
C12_CycleErrorNamesCycleNode ==
    (pc = "reviewed" /\ SchemaClean(plan) /\ Len(UndefinedMentions(plan)) = 0) =>
        LET errors == check_dag(plan)
        IN  IF HasCycle(BuildDag(plan))
            THEN /\ Len(errors) = 1
                 /\ errors[1].check_id = "RG-DAG-004"
                 /\ IsCycleError(errors[1])
                 /\ errors[1].reference[1] \in OnCycle(BuildDag(plan))
            ELSE errors = <<>>

====
